---- MODULE Spec2Model ----
(***************************************************************************)
(* cloud-watch-client: one sequential run of main() against the log-query  *)
(* service.  The service's answers (DescribeLogGroups, StartQuery,         *)
(* GetQueryResults) are the inputs of the run; everything written to       *)
(* standard output, every service call and every sleep is recorded.        *)
(***************************************************************************)
EXTENDS Integers, Sequences, FiniteSets, TLC

VARIABLES
    pc,        \* position of main(): start, discover, loop, result, wait, emit, done, exit
    opts,      \* the package-level options value (src/main.go:85)
    q,         \* main's query string
    groups,    \* the slice main ranges over (result of getGroupAll)
    idx,       \* 1-based position of the range loop over groups
    t,         \* query handle returned by DoQuery for the current group
    out,       \* Result's local `out`: the latest GetQueryResults output
    res,       \* main's `res`: the normalized results of the current group
    ridx,      \* 1-based position of the range loop over res
    stdout,    \* lines written to standard output, in order
    exitCode,  \* -1 while running, else the process exit status
    calls,     \* service calls and sleeps, in order
    resp,      \* service side: the latest GetQueryResults answer given
    polls,     \* service side: non-"Complete" answers given so far in the run
    stuck,     \* service side: the current query never completes
    wait,      \* Result's `wait` argument
    logger     \* the Logger implementation behind getGroupAll/assembleQuery

vars == <<pc, opts, q, groups, idx, t, out, res, ridx, stdout, exitCode,
          calls, resp, polls, stuck, wait, logger>>

----------------------------------------------------------------------------
(* Bounds of the model: the groups a discovery answer lists, the            *)
(* non-"Complete" answers the service gives to completing queries in one   *)
(* run, and the records it returns in one run's answers.                   *)

MaxGroups == 2
MaxPolls == 2
MaxRecords == 2

----------------------------------------------------------------------------
(* Time Codec: ParseTime (time.Parse with the RFC3339 layout) and          *)
(* UnixMillisecond.  A time string is a sequence of characters.            *)

Digits == <<"0", "1", "2", "3", "4", "5", "6", "7", "8", "9">>

IsDigit(c) == \E i \in 1..10 : Digits[i] = c

DigitVal(c) == (CHOOSE i \in 1..10 : Digits[i] = c) - 1

AllDigits(s, from, to) == \A i \in from..to : IsDigit(s[i])

RECURSIVE Num(_, _, _)
Num(s, from, to) ==
    IF to < from THEN 0 ELSE Num(s, from, to - 1) * 10 + DigitVal(s[to])

IsLeap(y) == (y % 4 = 0 /\ y % 100 # 0) \/ y % 400 = 0

DaysIn(y, m) ==
    IF m = 2 THEN (IF IsLeap(y) THEN 29 ELSE 28)
    ELSE IF m \in {4, 6, 9, 11} THEN 30 ELSE 31

\* Days from 1970-01-01 to the civil date y-m-d.
DaysFromCivil(y, m, d) ==
    LET yy  == IF m <= 2 THEN y - 1 ELSE y
        era == yy \div 400
        yoe == yy - era * 400
        mp  == IF m > 2 THEN m - 3 ELSE m + 9
        doy == (153 * mp + 2) \div 5 + d - 1
        doe == yoe * 365 + yoe \div 4 - yoe \div 100 + doy
    IN  era * 146097 + doe - 719468

\* The layout "2006-01-02T15:04:05Z07:00": date, "T", time, then "Z" or a
\* signed hh:mm offset.
LayoutOK(s) ==
    /\ Len(s) \in {20, 25}
    /\ AllDigits(s, 1, 4) /\ s[5] = "-" /\ AllDigits(s, 6, 7) /\ s[8] = "-"
    /\ AllDigits(s, 9, 10) /\ s[11] = "T"
    /\ AllDigits(s, 12, 13) /\ s[14] = ":" /\ AllDigits(s, 15, 16)
    /\ s[17] = ":" /\ AllDigits(s, 18, 19)
    /\ IF Len(s) = 20 THEN s[20] = "Z"
       ELSE /\ s[20] \in {"+", "-"}
            /\ AllDigits(s, 21, 22) /\ s[23] = ":" /\ AllDigits(s, 24, 25)

RangeOK(s) ==
    /\ Num(s, 6, 7) \in 1..12
    /\ Num(s, 9, 10) \in 1..DaysIn(Num(s, 1, 4), Num(s, 6, 7))
    /\ Num(s, 12, 13) \in 0..23
    /\ Num(s, 15, 16) \in 0..59
    /\ Num(s, 18, 19) \in 0..59
    /\ Len(s) = 25 => (Num(s, 21, 22) \in 0..23 /\ Num(s, 24, 25) \in 0..59)

OffsetSeconds(s) ==
    IF Len(s) = 20 THEN 0
    ELSE (IF s[20] = "-" THEN -1 ELSE 1)
         * (Num(s, 21, 22) * 3600 + Num(s, 24, 25) * 60)

\* The zero time.Time{} returned with an error; callers never convert it.
ZeroTime == [sec |-> 0, nsec |-> 0, zero |-> TRUE]

\* ParseTime(target): [err, time]; a time is its Unix seconds and nanoseconds.
ParseTime(target) ==
    IF LayoutOK(target) /\ RangeOK(target)
    THEN [err  |-> FALSE,
          time |-> [sec  |-> DaysFromCivil(Num(target, 1, 4), Num(target, 6, 7),
                                           Num(target, 9, 10)) * 86400
                             + Num(target, 12, 13) * 3600
                             + Num(target, 15, 16) * 60
                             + Num(target, 18, 19)
                             - OffsetSeconds(target),
                    nsec |-> 0,
                    zero |-> FALSE]]
    ELSE [err |-> TRUE, time |-> ZeroTime]

\* UnixMillisecond(target) = target.UnixNano() / 1e6.  The value exceeds the
\* checker's integer range, so it is kept as <<seconds, milliseconds>>, i.e.
\* seconds * 1000 + milliseconds.
UnixMillisecond(target) == <<target.sec, target.nsec \div 1000000>>

----------------------------------------------------------------------------
(* Inputs of a run. *)

DefaultStart ==
    <<"2", "0", "2", "2", "-", "0", "9", "-", "2", "2", "T",
      "0", "0", ":", "0", "0", ":", "0", "0", "+", "0", "9", ":", "0", "0">>

DefaultEnd ==
    <<"2", "0", "2", "2", "-", "0", "9", "-", "2", "2", "T",
      "0", "0", ":", "3", "0", ":", "0", "0", "+", "0", "9", ":", "0", "0">>

\* A date-only string and a string with no UTC offset: both malformed.
DateOnly == <<"2", "0", "2", "2", "-", "0", "9", "-", "2", "2">>

NoOffset ==
    <<"2", "0", "2", "2", "-", "0", "9", "-", "2", "2", "T",
      "0", "0", ":", "0", "0", ":", "0", "0">>

\* A well-formed end time given in UTC.
UtcEnd ==
    <<"2", "0", "2", "2", "-", "0", "9", "-", "2", "1", "T",
      "1", "6", ":", "0", "0", ":", "0", "0", "Z">>

StartTexts == {DefaultStart, DateOnly}
EndTexts == {DefaultEnd, UtcEnd, NoOffset}
KeyWords == {"error", "| limit 1"}
\* The log groups of the account under the prefix, in the service's order.
AllGroups == <<"/app/a", "/app/b", "/app/c", "/app/d">>

\* The zero value of the options struct, before flags.ParseArgs fills it.
ZeroOpts == [GroupName |-> "", Start |-> <<>>, End |-> <<>>, KeyWord |-> ""]

RECURSIVE SeqsUpTo(_, _)
SeqsUpTo(S, n) ==
    IF n = 0 THEN {<<>>}
    ELSE LET shorter == SeqsUpTo(S, n - 1)
         IN  shorter \cup {Append(s, x) : s \in {u \in shorter : Len(u) = n - 1}, x \in S}

\* Raw result records: sequences of field/value pairs.
Pair(f, v) == [Field |-> f, Value |-> v]

RawRecords ==
    { <<Pair("@timestamp", "T1"), Pair("@ptr", "P1"), Pair("@message", "M1"),
        Pair("@logStream", "S1")>>,
      <<Pair("@ptr", "P2")>>,
      <<Pair("@message", "M3"), Pair("@logStream", "S3")>> }

Statuses == {"Complete", "Running", "complete", "Failed"}

NoOutput == [err |-> FALSE, Status |-> "", Results |-> <<>>]

\* Answers of DescribeLogGroups: an error, or the first k groups.
ListAnswers ==
    {[err |-> TRUE, LogGroups |-> <<>>]}
    \cup {[err |-> FALSE, LogGroups |-> SubSeq(AllGroups, 1, k)] : k \in 0..MaxGroups}

\* Answers of StartQuery to the n-th submitted query: an error, or a fresh
\* query id; the service also fixes whether the query will ever complete.
StartAnswers(n) ==
    {[err |-> TRUE, QueryId |-> "", never |-> FALSE]}
    \cup {[err |-> FALSE, QueryId |-> "q" \o ToString(n), never |-> b] : b \in BOOLEAN}

\* Records the service may still return: MaxRecords less those printed.
RecordsLeft ==
    LET printed == Len(SelectSeq(stdout, LAMBDA l : l.at = "message"))
    IN  IF printed >= MaxRecords THEN 0 ELSE MaxRecords - printed

\* Answers of GetQueryResults for the current handle.  A query that never
\* completes answers a non-"Complete" status every time; the other queries
\* of a run are given at most MaxPolls non-"Complete" answers in all, each
\* with at most one record of partial results, before "Complete" or an error.
GetAnswers ==
    LET ok(S, n) == {[err |-> FALSE, Status |-> s, Results |-> r] :
                        s \in S, r \in SeqsUpTo(RawRecords, n)}
        partial  == ok(Statuses \ {"Complete"}, IF RecordsLeft > 0 THEN 1 ELSE 0)
    IN  IF stuck THEN partial
        ELSE {[err |-> TRUE, Status |-> "", Results |-> <<>>]}
             \cup ok({"Complete"}, RecordsLeft)
             \cup (IF polls < MaxPolls THEN partial ELSE {})

----------------------------------------------------------------------------
(* Query Builder and Result Normalizer. *)

\* AssembleQuery(keyword): <<string, error>>, the error always nil.
AssembleQuery_Quoted(keyword) ==
    [s |-> "fields @timestamp, @message, @logStream | filter @message \"" \o keyword \o "\"",
     err |-> FALSE]

AssembleQuery(keyword) ==
    [s   |-> "fields @timestamp, @message, @logStream | filter @message " \o keyword,
     err |-> FALSE]

\* assembleQuery(l): the call through the Logger interface.  Logs is the
\* implementation main constructs; "Failing" stands for an implementation
\* whose AssembleQuery returns an error.
assembleQuery(l, keyword) ==
    IF l = "Logs" THEN AssembleQuery(keyword) ELSE [s |-> "", err |-> TRUE]

ZeroResult == [Timestamp |-> "", LogStream |-> "", Message |-> ""]

\* Mutant: the "@logStream" case assigns the Timestamp field.
RECURSIVE ScanFields_StreamToTimestamp(_, _, _)
ScanFields_StreamToTimestamp(record, k, qr) ==
    IF k > Len(record) THEN qr
    ELSE LET element == record[k]
         IN  ScanFields_StreamToTimestamp(record, k + 1,
                 IF element.Field = "@timestamp"
                 THEN [qr EXCEPT !.Timestamp = element.Value]
                 ELSE IF element.Field = "@logStream"
                 THEN [qr EXCEPT !.Timestamp = element.Value]
                 ELSE IF element.Field = "@message"
                 THEN [qr EXCEPT !.Message = element.Value]
                 ELSE qr)

\* The inner loop of Result over one record's elements, from element k on.
RECURSIVE ScanFields(_, _, _)
ScanFields(record, k, qr) ==
    IF k > Len(record) THEN qr
    ELSE LET element == record[k]
         IN  ScanFields(record, k + 1,
                 IF element.Field = "@timestamp"
                 THEN [qr EXCEPT !.Timestamp = element.Value]
                 ELSE IF element.Field = "@logStream"
                 THEN [qr EXCEPT !.LogStream = element.Value]
                 ELSE IF element.Field = "@message"
                 THEN [qr EXCEPT !.Message = element.Value]
                 ELSE qr)

\* Mutant: a record with no recognized field is dropped.
RECURSIVE Normalize_SkipsEmpty(_, _, _)
Normalize_SkipsEmpty(results, k, result) ==
    IF k > Len(results) THEN result
    ELSE Normalize_SkipsEmpty(results, k + 1,
             IF ScanFields(results[k], 1, ZeroResult) = ZeroResult THEN result
             ELSE Append(result, ScanFields(results[k], 1, ZeroResult)))

\* The outer loop of Result over out.Results, from record k on.
RECURSIVE Normalize(_, _, _)
Normalize(results, k, result) ==
    IF k > Len(results) THEN result
    ELSE Normalize(results, k + 1,
                   Append(result, ScanFields(results[k], 1, ZeroResult)))

----------------------------------------------------------------------------
(* Standard output and the record of service calls. *)

\* fmt.Println(text); grp is the group whose result the line is (0: none).
Println(text, at, grp) == [text |-> text, at |-> at, grp |-> grp]

\* logger.Debug / logger.Fatal: the logger's output path is stdout.
LogLine(msg) == [text |-> msg, at |-> "log", grp |-> 0]

\* Once MaxPolls non-"Complete" answers are recorded, further rounds of the
\* poll loop on a never-completing query repeat the same events and are no
\* longer recorded.
Recording == ~(stuck /\ polls >= MaxPolls /\ pc = "wait")

Record(log, entries) == IF Recording THEN log \o entries ELSE log

StartCalls == SelectSeq(calls, LAMBDA c : c.op = "start")

----------------------------------------------------------------------------
(* Operations. *)

\* GetGroupAll: the names of the answer's groups, or nothing on an error.
GetGroupAll(ans) == IF ans.err THEN <<>> ELSE ans.LogGroups

\* Mutants of the exit test: any status but "Running" ends the loop; the
\* comparison ignores case; "Failed" is taken as terminal too.
LoopDone_NotRunning(o) == o.Status # "Running"

LoopDone_AnyCase(o) == o.Status \in {"Complete", "complete"}

LoopDone_GivesUp(o) == o.Status \in {"Complete", "Failed"}

\* The exit test of the poll loop.
LoopDone(o) == o.Status = "Complete"

\* Mutant: the loop is entered whatever the `wait` argument.
Waits_Always(w) == TRUE

\* The test `if wait` that guards the poll loop.
Waits(w) == w

\* Mutant: the error of the second ParseTime call is not tested.
ParseFailed_StartOnly(ParsedFrom, ParsedTo) == ParsedFrom.err

\* The error tests of DoQuery on the two parsed times.
ParseFailed(ParsedFrom, ParsedTo) == ParsedFrom.err \/ ParsedTo.err

\* Mutant: main passes the query string q where the handle t is meant.
ResultArg_QueryString == q

\* The handle main passes to Result.
ResultArg == t

\* os.Exit(code) after writing `lines`.
Exit(lines, code) ==
    /\ stdout' = stdout \o lines
    /\ exitCode' = code
    /\ pc' = "exit"

\* main, lines 197-217: parse the arguments, print the keyword, build the query.
Startup ==
    /\ pc = "start"
    /\ \E ok \in BOOLEAN, kw \in KeyWords, st \in StartTexts, en \in EndTexts :
        IF ~ok
        THEN /\ Exit(<<Println("flags error", "err", 0)>>, 1)
             /\ UNCHANGED <<opts, q>>
        ELSE LET built == assembleQuery(logger, kw)
             IN  /\ opts' = [GroupName |-> "/", Start |-> st, End |-> en, KeyWord |-> kw]
                 /\ stdout' = stdout \o <<Println(kw, "keyword", 0)>>
                            \o (IF built.err THEN <<Println("query error", "err", 0)>> ELSE <<>>)
                 /\ q' = built.s
                 /\ pc' = "discover"
                 /\ UNCHANGED exitCode
    /\ UNCHANGED <<groups, idx, t, out, res, ridx, calls, resp, polls, stuck, wait, logger>>

\* getGroupAll(cloudwatch): one DescribeLogGroups call.
Discover ==
    /\ pc = "discover"
    /\ \E ans \in ListAnswers :
        /\ groups' = GetGroupAll(ans)
        /\ calls' = Append(calls, [op |-> "list", prefix |-> opts.GroupName, err |-> ans.err])
        /\ stdout' = IF ans.err THEN stdout ELSE Append(stdout, LogLine("sarr"))
    /\ idx' = 1
    /\ pc' = "loop"
    /\ UNCHANGED <<opts, q, t, out, res, ridx, exitCode, resp, polls, stuck, wait, logger>>

\* Mutant: the times are validated once the loop is over, groups or not.
Finish_ChecksTimes ==
    /\ pc = "loop"
    /\ idx > Len(groups)
    /\ IF ParseFailed(ParseTime(opts.Start), ParseTime(opts.End))
       THEN Exit(<<Println("parse error", "err", 0)>>, 1)
       ELSE /\ pc' = "done"
            /\ exitCode' = 0
            /\ UNCHANGED stdout
    /\ UNCHANGED <<opts, q, groups, idx, t, out, res, ridx, calls, resp,
                   polls, stuck, wait, logger>>

\* The range loop is over: main returns.
Finish ==
    /\ pc = "loop"
    /\ idx > Len(groups)
    /\ pc' = "done"
    /\ exitCode' = 0
    /\ UNCHANGED <<opts, q, groups, idx, t, out, res, ridx, stdout, calls, resp,
                   polls, stuck, wait, logger>>

\* Mutant: the query passed for a group is narrowed by the group's position.
QueryArg_PerGroup == q \o " | limit " \o ToString(idx)

\* The query main passes to DoQuery.
QueryArg == q

\* cloudwatch.DoQuery(v, q) for the next group and main's handling of its error.
Submit ==
    /\ pc = "loop"
    /\ idx <= Len(groups)
    /\ LET v          == groups[idx]
           ParsedFrom == ParseTime(opts.Start)
           ParsedTo   == ParseTime(opts.End)
           logged     == <<LogLine("query")>>
       IN  IF ParseFailed(ParsedFrom, ParsedTo)
           THEN /\ Exit(logged \o <<Println("parse error", "err", 0)>>, 1)
                /\ UNCHANGED <<t, calls, polls, stuck>>
           ELSE \E ans \in StartAnswers(Len(StartCalls) + 1) :
                /\ calls' = Append(calls,
                       [op           |-> "start",
                        LogGroupName |-> v,
                        QueryString  |-> QueryArg,
                        StartTime    |-> UnixMillisecond(ParsedFrom.time),
                        EndTime      |-> UnixMillisecond(ParsedTo.time),
                        err          |-> ans.err,
                        QueryId      |-> ans.QueryId])
                /\ IF ans.err
                   THEN /\ Exit(logged \o <<Println("service error", "err", 0)>>, 1)
                        /\ UNCHANGED <<t, polls, stuck>>
                   ELSE /\ t' = ans.QueryId
                        /\ stuck' = ans.never
                        /\ UNCHANGED polls
                        /\ stdout' = stdout \o logged
                        /\ pc' = "result"
                        /\ UNCHANGED exitCode
    /\ UNCHANGED <<opts, q, groups, idx, out, res, ridx, resp, wait, logger>>

\* Mutant: the error is logged without exiting and main goes on to its
\* range loop over res.
Fatal_Continues ==
    /\ stdout' = Append(stdout, LogLine("fatal"))
    /\ pc' = "emit"
    /\ UNCHANGED exitCode

\* main's handling of an error of Result: logger.Fatal logs, then exits 1.
Fatal ==
    Exit(<<LogLine("fatal")>>, 1)

\* Mutant: an error of the call is not returned; Result sleeps and asks again.
GetQueryResults_RetriesOnError(query, ans, after, logged) ==
    /\ resp' = ans
    /\ calls' = Record(calls, <<[op |-> "get", QueryId |-> query, err |-> ans.err,
                                 complete |-> ~ans.err /\ ans.Status = "Complete"]>>
                              \o after)
    /\ polls' = IF ~ans.err /\ ans.Status # "Complete" /\ polls < MaxPolls
                THEN polls + 1 ELSE polls
    /\ out' = IF ans.err THEN out ELSE ans
    /\ res' = res
    /\ stdout' = Record(stdout, logged)
    /\ pc' = "wait"
    /\ UNCHANGED exitCode

\* One GetQueryResults call for handle `query` answered by `ans`, and what
\* follows it: on an error Result returns (nil, err) to main; otherwise `out`
\* is the answer and `after` and `logged` are recorded.
GetQueryResults(query, ans, after, logged) ==
    /\ resp' = ans
    /\ calls' = Record(calls, <<[op |-> "get", QueryId |-> query, err |-> ans.err,
                                 complete |-> ~ans.err /\ ans.Status = "Complete"]>>
                              \o (IF ans.err THEN <<>> ELSE after))
    /\ polls' = IF ~ans.err /\ ans.Status # "Complete" /\ polls < MaxPolls
                THEN polls + 1 ELSE polls
    /\ IF ans.err
       THEN /\ res' = <<>>
            /\ Fatal
            /\ UNCHANGED out
       ELSE /\ out' = ans
            /\ res' = res
            /\ stdout' = Record(stdout, logged)
            /\ pc' = "wait"
            /\ UNCHANGED exitCode

\* Result, lines 142-147: the first GetQueryResults call.
FirstGet ==
    /\ pc = "result"
    /\ \E ans \in GetAnswers : GetQueryResults(ResultArg, ans, <<>>, <<>>)
    /\ UNCHANGED <<opts, q, groups, idx, t, ridx, stuck, wait, logger>>

\* Result, lines 149-160: one round of the wait loop that does not break.
Poll ==
    /\ pc = "wait"
    /\ Waits(wait)
    /\ ~LoopDone(out)
    /\ \E ans \in GetAnswers :
           GetQueryResults(ResultArg, ans, <<[op |-> "sleep", seconds |-> 10]>>, <<LogLine("wait")>>)
    /\ UNCHANGED <<opts, q, groups, idx, t, ridx, stuck, wait, logger>>

\* Result, lines 149-152 and 163-184: there is no waiting or the loop breaks;
\* the output held is normalized and returned to main.
Return ==
    /\ pc = "wait"
    /\ ~Waits(wait) \/ LoopDone(out)
    /\ res' = Normalize(out.Results, 1, <<>>)
    /\ ridx' = 1
    /\ pc' = "emit"
    /\ UNCHANGED <<opts, q, groups, idx, t, out, stdout, exitCode, calls, resp,
                   polls, stuck, wait, logger>>

\* main, lines 228-230: print the next result's message.
Emit ==
    /\ pc = "emit"
    /\ ridx <= Len(res)
    /\ stdout' = Append(stdout, Println(res[ridx].Message, "message", idx))
    /\ ridx' = ridx + 1
    /\ UNCHANGED <<pc, opts, q, groups, idx, t, out, res, exitCode, calls, resp,
                   polls, stuck, wait, logger>>

\* Where the outer loop goes on after a group: the range expression was
\* evaluated once, so to the next element (the mutant evaluates it again).
LoopBack_Rediscover == "discover"

LoopBack == "loop"

\* The inner range loop is over: on to the next group.
NextGroup ==
    /\ pc = "emit"
    /\ ridx > Len(res)
    /\ idx' = idx + 1
    /\ pc' = LoopBack
    /\ UNCHANGED <<opts, q, groups, t, out, res, ridx, stdout, exitCode, calls, resp,
                   polls, stuck, wait, logger>>

Init ==
    /\ pc = "start"
    /\ opts = ZeroOpts
    /\ q = ""
    /\ groups = <<>>
    /\ idx = 1
    /\ t = ""
    /\ out = NoOutput
    /\ res = <<>>
    /\ ridx = 1
    /\ stdout = <<>>
    /\ exitCode = -1
    /\ calls = <<>>
    /\ resp = NoOutput
    /\ polls = 0
    /\ stuck = FALSE
    /\ wait = TRUE
    /\ logger = "Logs"

Next ==
    \/ Startup
    \/ Discover
    \/ Finish
    \/ Submit
    \/ FirstGet
    \/ Poll
    \/ Return
    \/ Emit
    \/ NextGroup

Spec == Init /\ [][Next]_vars

\* main is one sequential flow that always takes its next step.
LiveSpec == Spec /\ WF_vars(Next)

\* main run against any implementation of the Logger interface.
LoggerInit ==
    /\ pc = "start"
    /\ opts = ZeroOpts
    /\ q = ""
    /\ groups = <<>>
    /\ idx = 1
    /\ t = ""
    /\ out = NoOutput
    /\ res = <<>>
    /\ ridx = 1
    /\ stdout = <<>>
    /\ exitCode = -1
    /\ calls = <<>>
    /\ resp = NoOutput
    /\ polls = 0
    /\ stuck = FALSE
    /\ wait = TRUE
    /\ logger \in {"Logs", "Failing"}

LoggerSpec == LoggerInit /\ [][Next]_vars

\* Result called on its own: Result(handle, wait) for a started query, with
\* either value of `wait`.
ResultInit ==
    /\ pc = "result"
    /\ opts = ZeroOpts
    /\ q = ""
    /\ groups = <<>>
    /\ idx = 1
    /\ t = "q1"
    /\ out = NoOutput
    /\ res = <<>>
    /\ ridx = 1
    /\ stdout = <<>>
    /\ exitCode = -1
    /\ calls = <<>>
    /\ resp = NoOutput
    /\ polls = 0
    /\ stuck \in BOOLEAN
    /\ wait \in BOOLEAN
    /\ logger = "Logs"

ResultNext ==
    \/ FirstGet
    \/ Poll
    \/ Return

ResultSpec == ResultInit /\ [][ResultNext]_vars

TypeOK ==
    /\ pc \in {"start", "discover", "loop", "result", "wait", "emit", "done", "exit"}
    /\ exitCode \in {-1, 0, 1}
    /\ polls \in 0..MaxPolls
    /\ idx \in 1..(Len(groups) + 1)

----------------------------------------------------------------------------
(* Vocabulary of the properties. *)

GetCalls == SelectSeq(calls, LAMBDA c : c.op = "get")

GetCallsFor(id) == SelectSeq(calls, LAMBDA c : c.op = "get" /\ c.QueryId = id)

LastCall == calls[Len(calls)]

LastLine == stdout[Len(stdout)]

Messages == SelectSeq(stdout, LAMBDA l : l.at = "message")

MessagesOf(g) == SelectSeq(stdout, LAMBDA l : l.at = "message" /\ l.grp = g)

\* The value of field f in a raw record: that of its last pair named f, or
\* the empty string when the record has no such pair.
FieldValue(record, f) ==
    LET hits == {k \in 1..Len(record) : record[k].Field = f}
    IN  IF hits = {} THEN ""
        ELSE record[CHOOSE k \in hits : \A m \in hits : m <= k].Value

NormalizedOf(record) ==
    [Timestamp |-> FieldValue(record, "@timestamp"),
     LogStream |-> FieldValue(record, "@logStream"),
     Message   |-> FieldValue(record, "@message")]

----------------------------------------------------------------------------
(* Properties. *)

\* C1: between any two get-results calls for the same handle there is a
\* sleep: the poller sleeps first and only then reissues the call.
C1_SleepBetweenGets ==
    \A i, j \in 1..Len(calls) :
        (/\ i < j
         /\ calls[i].op = "get" /\ calls[j].op = "get"
         /\ calls[i].QueryId = calls[j].QueryId)
        => \E k \in (i + 1)..(j - 1) : calls[k].op = "sleep"

\* C2: when Result returns successfully after the service gave n
\* non-"Complete" answers and then "Complete", exactly n+1 get-results calls
\* were issued for the handle and the returned records are the normalization
\* of the last answer alone.
C2_CallsAndLastResponse ==
    pc = "emit" =>
        /\ LET n == Len(SelectSeq(GetCallsFor(t), LAMBDA c : ~c.err /\ ~c.complete))
           IN  Len(GetCallsFor(t)) = n + 1
        /\ LastCall.op \in {"get", "sleep"}
        /\ \E j \in 1..Len(calls) :
              /\ calls[j].op = "get" /\ calls[j].QueryId = t /\ calls[j].complete
              /\ \A k \in (j + 1)..Len(calls) : calls[k].op = "sleep"
        /\ Len(res) = Len(resp.Results)
        /\ \A i \in 1..Len(res) : res[i] = NormalizedOf(resp.Results[i])

\* C2 witness: Result has returned after two "Running"-like answers, with
\* records in the final answer.
C2_Witness ==
    /\ pc = "emit"
    /\ polls >= 2
    /\ Len(GetCallsFor(t)) >= 3
    /\ Len(res) >= 1

\* C3: when each of the k >= 1 queries completes at once with one record, the
\* output is exactly the k messages, in discovery order, and no other line.
C3_ExactlyTheMessages ==
    (/\ pc = "done"
     /\ Len(groups) >= 1
     /\ Len(GetCalls) = Len(groups)
     /\ \A g \in 1..Len(groups) : Len(MessagesOf(g)) = 1)
    => /\ Len(stdout) = Len(groups)
       /\ \A i \in 1..Len(stdout) : stdout[i].at = "message" /\ stdout[i].grp = i

\* C4: after a failed list-groups call the run ends normally with no
\* start-query call, no get-results call and no line of output.
C4_DiscoveryErrorSilent ==
    (Len(calls) >= 1 /\ calls[1].op = "list" /\ calls[1].err)
    => /\ groups = <<>>
       /\ Len(calls) = 1
       /\ pc \in {"loop", "done"}
       /\ pc = "done" => exitCode = 0
       /\ stdout = <<>>

C6_SubmissionFailureAborts ==
    /\ (pc # "start" /\ (opts.Start = DateOnly \/ opts.End = NoOffset))
       => /\ StartCalls = <<>> /\ GetCalls = <<>>
          /\ pc \in {"discover", "loop", "exit", "done"}
          /\ (pc \in {"exit", "done"} /\ groups # <<>>)
             => (pc = "exit" /\ exitCode = 1 /\ LastLine.at = "err")
    /\ (Len(calls) >= 1 /\ LastCall.op = "start" /\ LastCall.err)
       => /\ pc = "exit" /\ exitCode = 1 /\ LastLine.at = "err"
          /\ ~ENABLED Next
          /\ \A j \in 1..Len(StartCalls) : StartCalls[j].LogGroupName = groups[j]
          /\ \A j \in 1..Len(GetCalls) : GetCalls[j].QueryId # LastCall.QueryId

\* C6 witness: the start-query call of the second group failed.
C6_Witness ==
    /\ pc = "exit"
    /\ Len(StartCalls) = 2
    /\ LastCall.op = "start" /\ LastCall.err
    /\ GetCalls # <<>>

\* C6 witness of the parse failure: the end time is malformed and the first
\* submission ended the run.
C6_ParseWitness ==
    /\ pc = "exit"
    /\ opts.End = NoOffset /\ opts.Start = DefaultStart
    /\ groups # <<>>

\* C7: at most one query handle is live: every get-results call uses the
\* handle of the most recent start-query call, and a start-query call for the
\* next group is issued only once the previous query answered "Complete" and
\* every record of that answer has been printed.
C7_HandlesInOrder ==
    /\ \A j \in 1..Len(calls) :
          calls[j].op = "get"
          => \E i \in 1..(j - 1) :
                /\ calls[i].op = "start" /\ ~calls[i].err
                /\ calls[i].QueryId = calls[j].QueryId
                /\ \A k \in (i + 1)..(j - 1) : calls[k].op # "start"
    /\ \A j \in 1..Len(calls) :
          (calls[j].op = "start" /\ \E i \in 1..(j - 1) : calls[i].op = "start")
          => \E i \in 1..(j - 1) :
                /\ calls[i].op = "get" /\ calls[i].complete
                /\ \A k \in (i + 1)..(j - 1) : calls[k].op = "sleep"

C7_EmittedBeforeNextStart ==
    (Len(StartCalls') > Len(StartCalls) /\ Len(StartCalls) >= 1)
    => /\ resp.Status = "Complete"
       /\ Len(MessagesOf(Len(StartCalls))) = Len(resp.Results)

C7_OneLiveHandle == []C7_HandlesInOrder /\ [][C7_EmittedBeforeNextStart]_vars

\* C7 witness: a second query is being polled after the first group's
\* messages were printed.
C7_Witness ==
    /\ Len(StartCalls) = 2
    /\ Len(GetCallsFor(t)) >= 2
    /\ Len(MessagesOf(1)) = 2

\* C8: Result returns successfully only when the last answer's status is
\* exactly "Complete"; while the answers are anything else nothing of the
\* current group is printed, and what is printed comes from the "Complete"
\* answer.
C8_OnlyCompleteReturns ==
    /\ pc = "emit"
       => /\ ~resp.err /\ resp.Status = "Complete"
          /\ LET m == MessagesOf(idx)
             IN  /\ Len(m) <= Len(resp.Results)
                 /\ \A i \in 1..Len(m) :
                       m[i].text = NormalizedOf(resp.Results[i]).Message
    /\ pc \in {"result", "wait"} /\ out.Status # "Complete"
       => MessagesOf(Len(StartCalls)) = <<>>

\* C8 witness: the loop holds an answer with status "complete" and records,
\* after an earlier non-"Complete" answer, and has not returned.
C8_Witness ==
    /\ pc = "wait"
    /\ out.Status = "complete"
    /\ Len(out.Results) >= 1
    /\ Len(GetCallsFor(t)) >= 2

\* C9: a query that is answered "Complete" or an error after finitely many
\* answers makes Result return; a query answered non-"Complete" forever
\* keeps the run in the poll loop: Result never returns, the run never ends.
C9_Termination ==
    /\ [](pc \in {"result", "wait"} /\ ~stuck => <>(pc \in {"emit", "exit"}))
    /\ [][(stuck /\ pc \in {"result", "wait"})
          => (pc' \in {"result", "wait"} /\ exitCode' = -1)]_vars

\* C9 witness: the poll loop is still running on a never-completing query
\* after MaxPolls answers.
C9_Witness ==
    /\ stuck
    /\ pc = "wait"
    /\ polls = MaxPolls
    /\ Len(GetCallsFor(t)) >= 2

\* C10: Result returns one normalized result per raw record of the answer it
\* holds, in the same order, the i-th built from the i-th record alone.
C10_OneToOne ==
    pc = "emit" =>
        /\ Len(res) = Len(out.Results)
        /\ \A i \in 1..Len(out.Results) : res[i] = NormalizedOf(out.Results[i])

\* C10 witness: an answer whose first record has no recognized field and
\* whose second has all three.
C10_Witness ==
    /\ pc = "emit"
    /\ Len(out.Results) = 2
    /\ out.Results[1] = <<Pair("@ptr", "P2")>>
    /\ res[2].Message = "M1"

\* The pairs of a raw record that carry field f.
PairsOf(record, f) == {k \in 1..Len(record) : record[k].Field = f}

\* C11: in every returned result, Timestamp, LogStream and Message are the
\* values of the record's "@timestamp", "@logStream" and "@message" pairs, the
\* empty string where the record has no such pair; no value of a pair with
\* another field name appears in the result.
C11_FieldsCopied ==
    pc = "emit" =>
        \A i \in 1..Len(res) :
            LET record == out.Results[i]
                got    == [f \in {"@timestamp", "@logStream", "@message"} |->
                              IF f = "@timestamp" THEN res[i].Timestamp
                              ELSE IF f = "@logStream" THEN res[i].LogStream
                              ELSE res[i].Message]
            IN  /\ \A f \in DOMAIN got :
                      IF PairsOf(record, f) = {} THEN got[f] = ""
                      ELSE \E k \in PairsOf(record, f) : record[k].Value = got[f]
                /\ \A k \in 1..Len(record) :
                      record[k].Field \notin DOMAIN got
                      => \A f \in DOMAIN got : got[f] # record[k].Value

\* C11 witness: a returned record with "@ptr" beside the three fields, and one
\* that lacks "@timestamp".
C11_Witness ==
    /\ pc = "emit"
    /\ Len(res) = 2
    /\ PairsOf(out.Results[1], "@ptr") # {}
    /\ res[1] = [Timestamp |-> "T1", LogStream |-> "S1", Message |-> "M1"]
    /\ res[2] = [Timestamp |-> "", LogStream |-> "S3", Message |-> "M3"]

\* C12: without waiting, Result issues exactly one get-results call, never
\* sleeps, and returns the normalization of that one answer whatever its
\* status.
C12_NoWaitSingleCall ==
    ~wait =>
        /\ Len(GetCalls) <= 1
        /\ \A k \in 1..Len(calls) : calls[k].op # "sleep"
        /\ pc # "result" => Len(GetCalls) = 1
        /\ pc = "wait" => (ENABLED Return /\ ~ENABLED Poll)
        /\ pc = "emit"
           => /\ Len(res) = Len(resp.Results)
              /\ \A i \in 1..Len(res) : res[i] = NormalizedOf(resp.Results[i])

\* C12 witness: Result has returned the record of a single "Running" answer.
C12_Witness ==
    /\ ~wait
    /\ pc = "emit"
    /\ resp.Status = "Running"
    /\ Len(GetCalls) = 1
    /\ Len(res) = 1

\* The query builder returned an error, which main printed.
BuildFailed ==
    \E k \in 1..Len(stdout) : stdout[k].at = "err" /\ stdout[k].text = "query error"

ExpectedQuery(keyword) ==
    CASE keyword = "error"     -> "fields @timestamp, @message, @logStream | filter @message error"
      [] keyword = "| limit 1" -> "fields @timestamp, @message, @logStream | filter @message | limit 1"

\* C14: the query built for a keyword is exactly the fixed prefix followed by
\* the keyword as given (nothing quoted, escaped or trimmed); it depends on the
\* keyword alone and building it never fails.
C14_QueryText ==
    /\ \A kw \in KeyWords :
          /\ AssembleQuery(kw).s = ExpectedQuery(kw)
          /\ ~AssembleQuery(kw).err
    /\ opts # ZeroOpts
       => /\ q = ExpectedQuery(opts.KeyWord)
          /\ ~BuildFailed
          /\ \A k \in 1..Len(StartCalls) : StartCalls[k].QueryString = ExpectedQuery(opts.KeyWord)

C14_Witness ==
    /\ opts # ZeroOpts
    /\ opts.KeyWord = "| limit 1"
    /\ Len(StartCalls) >= 1
    /\ StartCalls[1].QueryString = "fields @timestamp, @message, @logStream | filter @message | limit 1"

ListCalls == SelectSeq(calls, LAMBDA c : c.op = "list")

\* C15, state part: at most one list-groups call, and it comes before every
\* start-query call; a start-query call is made only with the query and the
\* group list already in hand.
C15_DiscoveredOnce ==
    /\ Len(ListCalls) <= 1
    /\ StartCalls # <<>>
       => /\ calls[1].op = "list"
          /\ pc \notin {"start", "discover"}
          /\ q = AssembleQuery(opts.KeyWord).s
    /\ pc \notin {"start", "discover"} /\ opts # ZeroOpts => Len(ListCalls) = 1

\* C15, step part: the query is assigned only by the first step of the run and
\* the group list only by the discovery step, neither after a start-query call.
C15_BuiltOnce ==
    /\ q' # q => (pc = "start" /\ calls = <<>>)
    /\ groups' # groups => (pc = "discover" /\ StartCalls = <<>> /\ ListCalls = <<>>)
    /\ Len(ListCalls') > Len(ListCalls) => (pc = "discover" /\ q' = q /\ StartCalls = <<>>)

\* C15: the query is built exactly once and list-groups is called exactly
\* once per run, both before the first start-query call; discovery is never
\* repeated between groups.
C15_OnceBeforeFirstStart == []C15_DiscoveredOnce /\ [][C15_BuiltOnce]_vars

\* C15 witness: the second group is being queried, after one list call.
C15_Witness ==
    /\ Len(StartCalls) = 2
    /\ Len(ListCalls) = 1
    /\ idx = 2
    /\ pc = "result"

\* C16: a get-results call that returns an error is the last thing Result
\* does: Result hands back the error with no records, whatever partial results
\* it held, and no sleep and no further call follows the failed one.
C16_FailsAtFirstError ==
    \A k \in 1..Len(calls) :
        (calls[k].op = "get" /\ calls[k].err)
        => /\ k = Len(calls)
           /\ res = <<>>
           /\ MessagesOf(idx) = <<>>
           /\ pc = "exit" /\ exitCode = 1
           /\ ~ENABLED Poll /\ ~ENABLED Return /\ ~ENABLED Emit

\* C16 witness: the call after a sleep failed while Result held partial
\* results of the first group.
C16_Witness ==
    /\ Len(StartCalls) = 1
    /\ Len(calls) >= 4
    /\ LastCall.op = "get" /\ LastCall.err
    /\ calls[Len(calls) - 1].op = "sleep"
    /\ out.Results # <<>>
    /\ res = <<>>

\* The time window in epoch milliseconds, as <<seconds, milliseconds>>, that
\* the documentation's conversion gives for each well-formed time text.
ExpectedMillis(text) ==
    CASE text = DefaultStart -> <<1663772400, 0>>
      [] text = DefaultEnd   -> <<1663774200, 0>>
      [] text = UtcEnd       -> <<1663776000, 0>>

\* C17: every start-query call of a run carries the same query string and the
\* same start and end times, those of the options converted to epoch
\* milliseconds; the calls differ only in the group name, the i-th call
\* naming the i-th discovered group.
C17_SameQueryAndWindow ==
    /\ \A i \in 1..Len(StartCalls) :
          /\ StartCalls[i].QueryString = q
          /\ StartCalls[i].StartTime = ExpectedMillis(opts.Start)
          /\ StartCalls[i].EndTime = ExpectedMillis(opts.End)
          /\ StartCalls[i].LogGroupName = groups[i]
    /\ \A i, j \in 1..Len(StartCalls) :
          /\ StartCalls[i].QueryString = StartCalls[j].QueryString
          /\ StartCalls[i].StartTime = StartCalls[j].StartTime
          /\ StartCalls[i].EndTime = StartCalls[j].EndTime
          /\ i # j => StartCalls[i].LogGroupName # StartCalls[j].LogGroupName

\* C17 witness: two groups were submitted with the same UTC end time.
C17_Witness ==
    /\ Len(StartCalls) = 2
    /\ opts.End = UtcEnd
    /\ StartCalls[1].LogGroupName = "/app/a" /\ StartCalls[2].LogGroupName = "/app/b"
    /\ StartCalls[2].EndTime = <<1663776000, 0>>
    /\ StartCalls[2].QueryString = StartCalls[1].QueryString

\* The run was given a start or end time that does not parse.
BadTimes ==
    /\ opts # ZeroOpts
    /\ ParseTime(opts.Start).err \/ ParseTime(opts.End).err

ErrLines == SelectSeq(stdout, LAMBDA l : l.at = "err")

\* C18: the times are parsed only inside the per-group submission.  A run
\* with a malformed time and no group (none found, or the discovery error
\* swallowed) ends normally with status 0 and no error printed; the malformed
\* time is reported only by the submission of the first group.
C18_TimesParsedPerGroup ==
    BadTimes =>
        /\ pc = "discover" => ErrLines = <<>>
        /\ (pc # "discover" /\ groups = <<>>)
           => /\ ErrLines = <<>>
              /\ pc \in {"loop", "done"}
              /\ pc = "loop" => (ENABLED Finish /\ ~ENABLED Submit)
              /\ pc = "done" => exitCode = 0
        /\ ErrLines # <<>>
           => /\ groups # <<>> /\ idx = 1
              /\ pc = "exit" /\ exitCode = 1
              /\ Len(ErrLines) = 1 /\ LastLine = ErrLines[1]
              /\ stdout[Len(stdout) - 1] = LogLine("query")
              /\ StartCalls = <<>>

\* C18 witness: the start time is malformed, the discovery error was
\* swallowed, and the run ended with status 0.
C18_Witness ==
    /\ opts.Start = DateOnly
    /\ pc = "done" /\ exitCode = 0
    /\ Len(calls) = 1 /\ calls[1].op = "list" /\ calls[1].err
    /\ ErrLines = <<>>

====
